---------------------------- MODULE Spec2Model ----------------------------
(***************************************************************************)
(* A model of the Petivity ("catalysis") Home Assistant integration:       *)
(* the status and weight coordinators (coordinator.py), the entry set-up   *)
(* and the get_weight_history service (__init__.py), the sensor platform   *)
(* set-up (sensor.py) and the config flow (config_flow.py, const.py).      *)
(*                                                                         *)
(* JSON values are modelled by their shape.  A "kind" says what Python     *)
(* object json.loads produced at a place: "obj" a dict, "list" a list,     *)
(* "str" a non-empty string, "null" None, "absent" a key that is missing   *)
(* from its parent dict, "empty" an empty container (falsy).  Python       *)
(* exceptions are modelled by their class name; "none" means the call      *)
(* returned.                                                               *)
(***************************************************************************)
EXTENDS Integers, Sequences, FiniteSets, TLC

\* Python's None where it stands for a string-valued field.
Null == "<None>"
\* A key that is missing from a dict (dict.get then returns its default).
Absent == "<absent>"

\* Optional numbers (Optional[float], Optional[int]): <<>> is None, <<n>> is n.
NoneNum == << >>
Some(n) == << n >>

---------------------------------------------------------------------------
(* Bounds of the model *)

\* Longest list of cats / machines / events / weight points in a response.
MaxCats == 2
MaxMachines == 1
\* Number of weight refreshes followed (the clock that stamps last_updated).
MaxRefreshes == 2
\* Longest list of weight measurements in a weight response.
MaxPoints == 3
\* Longest list of elimination events of a machine.
MaxEvents == 2

---------------------------------------------------------------------------
(* The status response: data.authenticate.myHousehold.{cats, machines} *)

\* activityState of a cat: missing, null, or an object.
ActAbsent == [kind |-> "absent", mostRecentEvent |-> Null, lastActivated |-> Null,
              catNotSeenWarning |-> FALSE]
ActNull == [kind |-> "null", mostRecentEvent |-> Null, lastActivated |-> Null,
            catNotSeenWarning |-> FALSE]
ActSeen == [kind |-> "obj", mostRecentEvent |-> "ev1", lastActivated |-> "t1",
            catNotSeenWarning |-> FALSE]
ActWarn == [kind |-> "obj", mostRecentEvent |-> Null, lastActivated |-> Null,
            catNotSeenWarning |-> TRUE]
ActStates == {ActAbsent, ActNull, ActSeen, ActWarn}

\* Cat ids and names as the service reports them; Null is an id or name that
\* is null or missing in the entry (dict.get gives None for both).
CatIds == {"c1", "c2"}
CatIdVals == CatIds \cup {Null}

\* An entry of the cats list: an object, or something that is not an object.
\* An id that is a JSON list or object: not a str, and not hashable.
UnhashableId == "<list>"
IsStr(id) == id \notin {Null, UnhashableId}
CatObj(id, name, act) == [kind |-> "obj", id |-> id, name |-> name, act |-> act]
CatNonObj(k) == [kind |-> k, id |-> Null, name |-> Null, act |-> ActAbsent]
CatEntries ==
    {CatObj(id, "Tom", act) : id \in CatIdVals, act \in ActStates}
        \cup {CatObj("c1", Null, ActAbsent), CatNonObj("null"), CatNonObj("str")}

\* The record get_cats builds for one cat (coordinator.py 172-178).
CatRecord(cat) ==
    [id |-> cat.id,
     name |-> cat.name,
     most_recent_event |-> cat.act.mostRecentEvent,
     last_activated |-> cat.act.lastActivated,
     cat_not_seen_warning |-> cat.act.catNotSeenWarning]

\* The result of a call: the exception that escaped it ("none" if it
\* returned) and the value it returned.
Returned(v) == [exc |-> "none", val |-> v]
Raised(e) == [exc |-> e, val |-> << >>]

\* self.data.get("data", {}).get("authenticate", {}).get("myHousehold", {}):
\* the kinds of the four values the chain calls .get on.  A missing key gives
\* the default {}, a dict; anything else that is not a dict has no .get.
PathKinds(d) == << d.top, d.data, d.auth, d.house >>
HasGet(k) == k \in {"obj", "absent"}
PathOK(d) == \A i \in 1..4 : HasGet(PathKinds(d)[i])

\* `if not self.data`: None and empty containers are falsy.
Falsy(k) == k \in {"null", "empty"}

\* The for loop of get_cats over a list; an exception ends the loop.  cat.get on something that is not a dict, and
\* activity_state.get on None, raise AttributeError.
RECURSIVE CatsLoop(_, _, _)
CatsLoop(items, i, out) ==
    IF i > Len(items) THEN Returned(out)
    ELSE LET cat == items[i] IN
         IF cat.kind # "obj" THEN Raised("AttributeError")
         ELSE IF cat.act.kind = "null" THEN Raised("AttributeError")
         ELSE CatsLoop(items, i + 1, Append(out, CatRecord(cat)))

\* Iterating a value that is not a list: None is not iterable (TypeError);
\* a non-empty dict or string yields strings, which have no .get.
IterNonList(k) ==
    CASE k = "absent" -> Returned(<< >>)
      [] k = "empty" -> Returned(<< >>)
      [] k = "null" -> Raised("TypeError")
      [] OTHER -> Raised("AttributeError")

\* except (KeyError, TypeError): the list built so far is returned.
Caught(e) == e \in {"KeyError", "TypeError"}

\* PetivityStatusCoordinator.get_cats
GetCats(d) ==
    IF Falsy(d.top) THEN Returned(<< >>)
    ELSE IF ~PathOK(d) THEN Raised("AttributeError")
    ELSE IF d.cats.kind = "list" THEN CatsLoop(d.cats.items, 1, << >>)
    ELSE IF Caught(IterNonList(d.cats.kind).exc) THEN Returned(<< >>)
    ELSE IterNonList(d.cats.kind)


---------------------------------------------------------------------------
(* Machines and their elimination events *)

ElimTypes == {"urination", "defecation", "combo", "unknown"}

\* normalisedClassification of an event: missing, null, or an object.  elimType
\* Absent is a missing key (the default "unknown" applies); cat is the kind
\* of classification.cat and catId its id.
ClsAbsent == [kind |-> "absent", isCat |-> FALSE, isElimination |-> FALSE,
              elimType |-> Absent, cat |-> "absent", catId |-> Null]
ClsNull == [kind |-> "null", isCat |-> FALSE, isElimination |-> FALSE,
            elimType |-> Absent, cat |-> "absent", catId |-> Null]
ClsElim(t, ck, cid) == [kind |-> "obj", isCat |-> TRUE, isElimination |-> TRUE,
                        elimType |-> t, cat |-> ck, catId |-> cid]
ClsOther == [kind |-> "obj", isCat |-> FALSE, isElimination |-> TRUE,
             elimType |-> "urination", cat |-> "absent", catId |-> Null]

EventObj(t, cls) == [kind |-> "obj", startTime |-> t, cls |-> cls]
EventNull == [kind |-> "null", startTime |-> Null, cls |-> ClsAbsent]
EventEntries ==
    {EventObj("t9", ClsElim("urination", "obj", "c1")),
     EventObj("t8", ClsElim(Absent, "absent", Null)),
     EventObj("t7", ClsElim("combo", "null", Null)),
     EventObj("t6", ClsOther),
     EventObj("t5", ClsAbsent),
     EventObj("t4", ClsNull),
     EventNull}

EventsAbsent == [kind |-> "absent", items |-> << >>]
EventsNull == [kind |-> "null", items |-> << >>]
EventsList(s) == [kind |-> "list", items |-> s]

NoEvent == [start_time |-> Null, elimination_type |-> Null, cat_id |-> Null]
ZeroCounts == [t \in ElimTypes |-> 0]

\* event_counts[elim_type] = event_counts.get(elim_type, 0) + 1
CountUp(counts, t) ==
    [x \in DOMAIN counts \cup {t} |->
        IF x = t THEN (IF t \in DOMAIN counts THEN counts[t] ELSE 0) + 1
        ELSE counts[x]]

\* The loop over eliminationEvents (coordinator.py 204-218); the value is
\* [events, counts].
RECURSIVE EventsLoop(_, _, _, _)
EventsLoop(items, i, evs, counts) ==
    IF i > Len(items) THEN Returned([events |-> evs, counts |-> counts])
    ELSE LET ev == items[i] IN
         IF ev.kind # "obj" THEN Raised("AttributeError")
         ELSE IF ev.cls.kind = "null" THEN Raised("AttributeError")
         ELSE IF ~(ev.cls.isCat /\ ev.cls.isElimination)
              THEN EventsLoop(items, i + 1, evs, counts)
         ELSE IF ev.cls.cat = "null" THEN Raised("AttributeError")
         ELSE LET t == IF ev.cls.elimType = Absent THEN "unknown" ELSE ev.cls.elimType
                  pe == [start_time |-> ev.startTime,
                         elimination_type |-> t,
                         cat_id |-> ev.cls.catId]
              IN EventsLoop(items, i + 1, Append(evs, pe), CountUp(counts, t))

ProcessEvents(e) ==
    CASE e.kind = "absent" -> Returned([events |-> << >>, counts |-> ZeroCounts])
      [] e.kind = "null" -> Raised("TypeError")
      [] OTHER -> EventsLoop(e.items, 1, << >>, ZeroCounts)

\* A machine entry.  name and powerMode may be Absent (key missing) or Null.
MachineNameVals == {"Box A", "Box B", Null, Absent}
PowerModeVals == {"AC", "BATTERY", Null, Absent}
BatteryVals == {NoneNum, Some(80)}

MachineObj(name, batt, pm, flags, evs) ==
    [kind |-> "obj", name |-> name, batteryPercentage |-> batt, powerMode |-> pm,
     showBatteryWarning |-> flags[1], isFrozen |-> flags[2],
     mostRecentUploadWarning |-> flags[3], isDirty |-> flags[4],
     wifiRssi |-> NoneNum, mostRecentUploadAt |-> Null, balancedStatus |-> Null,
     eliminationEvents |-> evs]
NoFlags == << FALSE, FALSE, FALSE, FALSE >>
MachineNonObj(k) ==
    [MachineObj(Absent, NoneNum, Absent, NoFlags, EventsAbsent) EXCEPT !.kind = k]

\* dict.get(key) / dict.get(key, default) for a string field.
Get(v) == IF v = Absent THEN Null ELSE v
GetOr(v, default) == IF v = Absent THEN default ELSE v

\* The record get_machines builds for one machine (coordinator.py 221-244).
MachineRecord(m, pe) ==
    LET evs == pe.events
        recent == IF Len(evs) > 0 THEN evs[1] ELSE NoEvent
    IN [id |-> GetOr(m.name, "unknown"),
        name |-> Get(m.name),
        battery_percentage |-> m.batteryPercentage,
        show_battery_warning |-> m.showBatteryWarning,
        wifi_rssi |-> m.wifiRssi,
        power_mode |-> Get(m.powerMode),
        is_frozen |-> m.isFrozen,
        most_recent_upload |-> m.mostRecentUploadAt,
        upload_warning |-> m.mostRecentUploadWarning,
        is_dirty |-> m.isDirty,
        balanced_status |-> m.balancedStatus,
        recent_events |-> evs,
        recent_event_count |-> Len(evs),
        event_counts |-> pe.counts,
        has_recent_event |-> Len(evs) > 0,
        last_event_time |-> recent.start_time,
        last_event_type |-> recent.elimination_type,
        last_event_cat_id |-> recent.cat_id]

\* The for loop of get_machines.  A TypeError inside it is caught by the
\* except clause around the loop, which ends it with the machines built so
\* far; an AttributeError escapes.
RECURSIVE MachinesLoop(_, _, _)
MachinesLoop(items, i, out) ==
    IF i > Len(items) THEN Returned(out)
    ELSE LET m == items[i] IN
         IF m.kind # "obj" THEN Raised("AttributeError")
         ELSE LET pe == ProcessEvents(m.eliminationEvents) IN
              IF Caught(pe.exc) THEN Returned(out)
              ELSE IF pe.exc # "none" THEN Raised(pe.exc)
              ELSE MachinesLoop(items, i + 1, Append(out, MachineRecord(m, pe.val)))

\* PetivityStatusCoordinator.get_machines
GetMachines(d) ==
    IF Falsy(d.top) THEN Returned(<< >>)
    ELSE IF ~PathOK(d) THEN Raised("AttributeError")
    ELSE IF d.machines.kind = "list" THEN MachinesLoop(d.machines.items, 1, << >>)
    ELSE IF Caught(IterNonList(d.machines.kind).exc) THEN Returned(<< >>)
    ELSE IterNonList(d.machines.kind)

---------------------------------------------------------------------------
(* The status documents the model draws from *)

ListVal(s) == [kind |-> "list", items |-> s]
NonList(k) == [kind |-> k, items |-> << >>]

\* A status document: the kinds along the path and the two lists.
Doc(top, data, auth, house, cats, machines) ==
    [top |-> top, data |-> data, auth |-> auth, house |-> house,
     cats |-> cats, machines |-> machines]

\* No data yet: DataUpdateCoordinator.data is None before the first refresh.
NoData == Doc("null", "absent", "absent", "absent", NonList("absent"), NonList("absent"))

SeqsUpTo(S, n) == UNION {[1..k -> S] : k \in 0..n}

\* What a place on the path can hold instead of a dict.
BadKinds == {"null", "list", "str"}
\* What can stand where the cats / machines list is expected.
LeafKinds == {"absent", "null", "empty", "obj", "str"}

\* Documents whose path breaks at some level (nothing below it exists).
BrokenDocs ==
    {Doc(k, "absent", "absent", "absent", NonList("absent"), NonList("absent")) :
        k \in BadKinds \cup {"empty", "obj"}}
    \cup {Doc("obj", k, "absent", "absent", NonList("absent"), NonList("absent")) :
        k \in BadKinds \cup {"obj"}}
    \cup {Doc("obj", "obj", k, "absent", NonList("absent"), NonList("absent")) :
        k \in BadKinds \cup {"obj"}}
    \cup {Doc("obj", "obj", "obj", k, NonList("absent"), NonList("absent")) :
        k \in BadKinds}

Household(cats, machines) == Doc("obj", "obj", "obj", "obj", cats, machines)

\* Machine entries of the parsing specification: every shape of the
\* events of one machine, and every shape of an entry of a longer list.
ParseEventMachines ==
    {MachineObj("Box A", NoneNum, Absent, NoFlags, e) :
        e \in {EventsAbsent, EventsNull} \cup
              {EventsList(s) : s \in SeqsUpTo(EventEntries, MaxEvents)}}
ParseMachines ==
    {MachineObj(n, NoneNum, Absent, NoFlags, e) :
        n \in {"Box A", Null, Absent}, e \in {EventsAbsent, EventsNull}}
    \cup {MachineNonObj("null"), MachineNonObj("str")}

\* The documents of the parsing specification: every shape of the path, of
\* the two lists and of their entries.
ParseDocs ==
    BrokenDocs
    \cup {Household(NonList(k), NonList("absent")) : k \in LeafKinds}
    \cup {Household(NonList("absent"), NonList(k)) : k \in LeafKinds}
    \cup {Household(ListVal(s), NonList("absent")) : s \in SeqsUpTo(CatEntries, MaxCats)}
    \cup {Household(NonList("absent"), ListVal(s)) : s \in SeqsUpTo(ParseMachines, MaxMachines)}
    \cup {Household(NonList("absent"), ListVal(<< m >>)) : m \in ParseEventMachines}

---------------------------------------------------------------------------
(* The weight response: data.authenticate.node.aggregatedEvents.weight *)

\* Means (grams) the service reports.
Grams == {0, 2268, 4537}

\* A measurement: an object whose mean is a number or null/missing, or null.
Measure(m) == [kind |-> "obj", mean |-> m]
MeasureNull == [kind |-> "null", mean |-> NoneNum]
Measures == {Measure(m) : m \in {NoneNum} \cup {Some(g) : g \in Grams}} \cup {MeasureNull}

WeightDoc(top, data, auth, node, agg, weight) ==
    [top |-> top, data |-> data, auth |-> auth, node |-> node, agg |-> agg,
     weight |-> weight]
WeightPath(w) == WeightDoc("obj", "obj", "obj", "obj", "obj", w)
\* No response (the value slot of a failed command).
NoResponse == WeightDoc("none", "absent", "absent", "absent", "absent", NonList("absent"))

BrokenWeightDocs ==
    {WeightDoc(k, "absent", "absent", "absent", "absent", NonList("absent")) :
        k \in BadKinds \cup {"obj"}}
    \cup {WeightDoc("obj", k, "absent", "absent", "absent", NonList("absent")) :
        k \in BadKinds}
    \cup {WeightDoc("obj", "obj", k, "absent", "absent", NonList("absent")) :
        k \in BadKinds}
    \cup {WeightDoc("obj", "obj", "obj", k, "absent", NonList("absent")) :
        k \in BadKinds \cup {"obj"}}
    \cup {WeightDoc("obj", "obj", "obj", "obj", k, NonList("absent")) :
        k \in BadKinds}

\* The responses of the parsing specification.
ParseWeightDocs ==
    BrokenWeightDocs
    \cup {WeightPath(NonList(k)) : k \in LeafKinds}
    \cup {WeightPath(ListVal(s)) : s \in SeqsUpTo(Measures, MaxPoints)}

\* Grams to pounds, 1 gram = 0.00220462 pounds, rounded to 2 decimals; the
\* value is in hundredths of a pound.  (g * 220462 / 10^8 pounds is
\* g * 220462 / 10^6 hundredths; no g < 250000 is an exact tie.)
PoundsPerGramE8 == 220462
ToPounds(g) == (g * PoundsPerGramE8 + 500000) \div 1000000

\* PetivityWeightCoordinator._extract_current_weight.  The value is the
\* weight (hundredths of a pound) or None.  The except clause catches
\* KeyError, TypeError and IndexError, not AttributeError.
ExtractCurrentWeight(r) ==
    LET w == r.weight IN
    IF ~(\A k \in {r.top, r.data, r.auth, r.node, r.agg} : HasGet(k))
    THEN [exc |-> "AttributeError", val |-> NoneNum]
    ELSE IF w.kind \in {"absent", "null", "empty"} THEN [exc |-> "none", val |-> NoneNum]
    ELSE IF w.kind = "obj" THEN [exc |-> "none", val |-> NoneNum]
    ELSE IF w.kind = "str" THEN [exc |-> "AttributeError", val |-> NoneNum]
    ELSE IF Len(w.items) = 0 THEN [exc |-> "none", val |-> NoneNum]
    ELSE LET latest == w.items[Len(w.items)] IN
         IF latest.kind # "obj" THEN [exc |-> "AttributeError", val |-> NoneNum]
         ELSE IF latest.mean = NoneNum THEN [exc |-> "none", val |-> NoneNum]
         ELSE [exc |-> "none", val |-> Some(ToPounds(latest.mean[1]))]

---------------------------------------------------------------------------
(* Running the catalysis script *)

\* How one subprocess.run ends: the script exits 0 printing JSON, exits 0
\* printing something else, exits non-zero, or run raises.
StartOutcomes ==
    {"exit0_json", "exit0_text", "exit1", "TimeoutExpired", "PermissionError", "OSError"}
Completed == {"exit0_json", "exit0_text", "exit1"}

\* The environment's part in one command: how the first start ends, how the
\* second ends if there is one ("unused" otherwise), and the JSON value
\* printed by a start that exits 0 with JSON.
ExecOutcome(first, second, stdout) == [first |-> first, second |-> second, stdout |-> stdout]
ExecOutcomes(payloads, nothing) ==
    {ExecOutcome(f, "unused", nothing) : f \in StartOutcomes \ {"PermissionError", "exit0_json"}}
    \cup {ExecOutcome("exit0_json", "unused", p) : p \in payloads}
    \cup {ExecOutcome("PermissionError", g, nothing) : g \in StartOutcomes \ {"exit0_json"}}
    \cup {ExecOutcome("PermissionError", "exit0_json", p) : p \in payloads}

\* ExecuteCommand starting the script again without making it executable.
ExecuteCommandWithoutChmod(o) ==
    IF o.first = "PermissionError"
    THEN [proc |-> IF o.second \in Completed THEN o.second ELSE "none",
          exc |-> IF o.second \in Completed THEN "none" ELSE o.second,
          starts |-> 2, chmod |-> 0,
          calls |-> << "subprocess.run", "subprocess.run" >>]
    ELSE [proc |-> IF o.first \in Completed THEN o.first ELSE "none",
          exc |-> IF o.first \in Completed THEN "none" ELSE o.first,
          starts |-> 1, chmod |-> 0, calls |-> << "subprocess.run" >>]

\* PetivityCoordinatorBase._execute_command: subprocess.run, and once more
\* after _ensure_script_executable if the first raised PermissionError.
\* proc is the completed process ("none" if run raised exc); calls are the
\* calls it made, in order.
ExecuteCommand(o) ==
    IF o.first = "PermissionError"
    THEN [proc |-> IF o.second \in Completed THEN o.second ELSE "none",
          exc |-> IF o.second \in Completed THEN "none" ELSE o.second,
          starts |-> 2, chmod |-> 1,
          calls |-> << "subprocess.run", "_ensure_script_executable", "subprocess.run" >>]
    ELSE [proc |-> IF o.first \in Completed THEN o.first ELSE "none",
          exc |-> IF o.first \in Completed THEN "none" ELSE o.first,
          starts |-> 1, chmod |-> 0, calls |-> << "subprocess.run" >>]

\* PetivityCoordinatorBase._run_catalysis_command.  args_are_str: every
\* argument is a str; " ".join(cmd), evaluated for the debug log before the
\* try block, raises TypeError otherwise.  Inside the try block every
\* exception, the UpdateFailed raised for a non-zero exit code or for
\* invalid JSON included, is caught and raised again as UpdateFailed.
\* The result returns the parsed stdout when exc is "none".
RunCatalysisCommand(args_are_str, o) ==
    IF ~args_are_str
    THEN [exc |-> "TypeError", msg |-> "sequence item: expected str instance", starts |-> 0,
          calls |-> << >>]
    ELSE LET e == ExecuteCommand(o) IN
         IF e.exc = "TimeoutExpired"
         THEN [exc |-> "UpdateFailed", msg |-> "Command timed out", starts |-> e.starts,
               calls |-> e.calls]
         ELSE IF e.exc # "none"
         THEN [exc |-> "UpdateFailed", msg |-> "Command execution failed", starts |-> e.starts,
               calls |-> e.calls]
         ELSE IF e.proc = "exit1"
         THEN [exc |-> "UpdateFailed", msg |-> "Command execution failed", starts |-> e.starts,
               calls |-> e.calls]
         ELSE IF e.proc = "exit0_text"
         THEN [exc |-> "UpdateFailed", msg |-> "Command execution failed", starts |-> e.starts,
               calls |-> e.calls]
         ELSE [exc |-> "none", msg |-> "", starts |-> e.starts,
               calls |-> e.calls]

\* The script file as _ensure_script_executable sees it.
ScriptModes == {"missing", "not_executable", "executable"}

\* PetivityCoordinatorBase._ensure_script_executable: the file's mode after
\* it.  chmod_ok says whether os.chmod succeeds; its exception is logged and
\* swallowed.
EnsureScriptExecutable(mode, chmod_ok) ==
    IF mode = "missing" THEN mode
    ELSE IF mode = "executable" THEN mode
    ELSE IF chmod_ok THEN "executable"
    ELSE mode

---------------------------------------------------------------------------
(* The weight refresh *)

\* const.py
WEIGHT_TIME_WINDOW == 7
EntryId == "entry1"

\* The status documents and weight responses of the polling specification;
\* NoData is the script printing null.
PollCatEntries ==
    {CatObj("c1", "Tom", ActSeen), CatObj("c2", Null, ActAbsent), CatObj(Null, "Tom", ActWarn)}
\* Lists of cats in which no entry repeats.
Distinct(s) == \A i, j \in 1..Len(s) : s[i] = s[j] => i = j
PollCatLists == {s \in SeqsUpTo(PollCatEntries, MaxCats) : Distinct(s)}
PollDocs ==
    {NoData, Doc("obj", "null", "absent", "absent", NonList("absent"), NonList("absent"))}
    \cup {Household(ListVal(s), NonList("absent")) : s \in PollCatLists}
\* A week with one measurement, and the reply {"data": null}.
PollWeightDocs ==
    {WeightPath(ListVal(<< Measure(Some(4537)) >>)),
     WeightDoc("obj", "null", "absent", "absent", "absent", NonList("absent"))}

\* dict assignment d[k] = v
Put(d, k, v) == [x \in DOMAIN d \cup {k} |-> IF x = k THEN v ELSE d[x]]
EmptyDict == [x \in {} |-> 0]

\* The body of the loop over cats for one cat (coordinator.py 284-316):
\* weight_data after it.  Any exception of the try block, one raised by
\* _run_catalysis_command or by _extract_current_weight, takes the except
\* branch, which keeps the previous entry if there is one.
WeightForCat(cache, wd, cat, o, t) ==
    LET call == RunCatalysisCommand(IsStr(cat.id), o)
        ex == ExtractCurrentWeight(o.stdout)
    IN IF call.exc = "none" /\ ex.exc = "none"
       THEN Put(wd, cat.id, [cat_name |-> cat.name,
                             current_weight |-> ex.val,
                             raw_data |-> o.stdout,
                             last_updated |-> t])
       ELSE IF cat.id \in DOMAIN cache THEN Put(wd, cat.id, cache[cat.id])
       ELSE wd

\* What the refresh logs and does for one cat: the command it issued and
\* how the command ended.
CommandRecord(cat, o) ==
    LET call == RunCatalysisCommand(IsStr(cat.id), o) IN
    [command |-> "weight", cat_id |-> cat.id, days |-> WEIGHT_TIME_WINDOW,
     bucket |-> "DAY", outcome |-> o.first, exc |-> call.exc,
     response |-> IF call.exc = "none" THEN o.stdout ELSE NoResponse]

RECURSIVE WeightLoop(_, _, _, _, _, _)
WeightLoop(cache, cats, outs, t, i, wd) ==
    IF i > Len(cats) THEN wd
    ELSE WeightLoop(cache, cats, outs, t, i + 1, WeightForCat(cache, wd, cats[i], outs[i], t))

\* The exception that leaves the loop body for one cat: the except branch
\* evaluates `cat_id in self._cat_weights`, which raises TypeError for an
\* id that cannot be hashed.
WeightForCatRaises(cat, o) ==
    LET call == RunCatalysisCommand(IsStr(cat.id), o)
        ex == ExtractCurrentWeight(o.stdout)
    IN IF call.exc = "none" /\ ex.exc = "none" THEN "none"
       ELSE IF cat.id = UnhashableId THEN "TypeError"
       ELSE "none"

\* The first cat of the list whose loop body raises; 0 if none does.
FirstRaising(cats, outs) ==
    LET R == {i \in 1..Len(cats) : WeightForCatRaises(cats[i], outs[i]) # "none"}
    IN IF R = {} THEN 0 ELSE CHOOSE i \in R : \A j \in R : i <= j

---------------------------------------------------------------------------
(* The sensor platform *)

Entity(cls, id) == [cls |-> cls, id |-> id]

\* The machine sensors' constructors call machine_id.lower(): None has no
\* attribute lower.  The cat sensors format the id into a string.
CanConstructMachineSensor(id) == id # Null

\* The loop over cats of the platform's async_setup_entry (sensor.py 28-33).
RECURSIVE CatEntities(_, _)
CatEntities(cats, i) ==
    IF i > Len(cats) THEN << >>
    ELSE << Entity("PetivityCatActivitySensor", cats[i].id),
            Entity("PetivityCatWeightSensor", cats[i].id) >>
         \o CatEntities(cats, i + 1)

\* The sensors created for one machine (sensor.py 38-49).
MachineEntities(m) ==
    << Entity("PetivityMachineStatusSensor", m.id),
       Entity("PetivityMachineEventCountSensor", m.id),
       Entity("PetivityMachineLastEventSensor", m.id) >>
    \o (IF m.battery_percentage # NoneNum
        THEN << Entity("PetivityMachineBatterySensor", m.id) >>
        ELSE << >>)

\* The loop over machines (sensor.py 37-49): the entities, or the exception
\* a constructor raised.
RECURSIVE MachinesEntities(_, _, _)
MachinesEntities(machines, i, out) ==
    IF i > Len(machines) THEN Returned(out)
    ELSE IF ~CanConstructMachineSensor(machines[i].id) THEN Raised("AttributeError")
    ELSE MachinesEntities(machines, i + 1, out \o MachineEntities(machines[i]))

\* The sensor platform's async_setup_entry: the entities handed to
\* async_add_entities and the number of calls of it, or the exception that
\* ended the set-up before the call.
SensorSetup(hd, doc) ==
    IF EntryId \notin hd THEN [exc |-> "KeyError", entities |-> << >>, add_calls |-> 0]
    ELSE LET c == GetCats(doc) IN
         IF c.exc # "none" THEN [exc |-> c.exc, entities |-> << >>, add_calls |-> 0]
         ELSE LET m == GetMachines(doc) IN
              IF m.exc # "none" THEN [exc |-> m.exc, entities |-> << >>, add_calls |-> 0]
              ELSE LET me == MachinesEntities(m.val, 1, << >>) IN
                   IF me.exc # "none"
                   THEN [exc |-> me.exc, entities |-> << >>, add_calls |-> 0]
                   ELSE [exc |-> "none",
                         entities |-> CatEntities(c.val, 1) \o me.val,
                         add_calls |-> 1]

\* The label of PetivityMachineStatusSensor.native_value (sensor.py
\* 130-139): the first of the four flags that is set.
StatusLabel(machine) ==
    IF machine.is_frozen THEN "FROZEN"
    ELSE IF machine.upload_warning THEN "UPLOAD_WARNING"
    ELSE IF machine.show_battery_warning THEN "LOW_BATTERY"
    ELSE IF machine.is_dirty THEN "NEEDS_CLEANING"
    ELSE "NORMAL"

\* machine.get("power_mode", "UNKNOWN") on a record of get_machines: the
\* record always has the key, with None for a powerMode that is null or
\* missing, so the default is not used.
PowerModeOf(machine) == GetOr(machine.power_mode, "UNKNOWN")

\* " | ".join(status_parts): str.join raises TypeError for an item that is
\* not a str.
JoinStatus(label, power_mode) ==
    IF power_mode = Null THEN Raised("TypeError")
    ELSE [exc |-> "none", val |-> label \o " | " \o power_mode]

\* The loop of native_value over the machines: the first with the sensor's
\* id gives the value; None if there is none.
RECURSIVE NativeValueLoop(_, _, _)
NativeValueLoop(machines, machine_id, i) ==
    IF i > Len(machines) THEN [exc |-> "none", val |-> Null]
    ELSE IF machines[i].id = machine_id
    THEN JoinStatus(StatusLabel(machines[i]), PowerModeOf(machines[i]))
    ELSE NativeValueLoop(machines, machine_id, i + 1)

\* PetivityMachineStatusSensor.native_value
NativeValue(doc, machine_id) ==
    LET m == GetMachines(doc) IN
    IF m.exc # "none" THEN [exc |-> m.exc, val |-> Null]
    ELSE NativeValueLoop(m.val, machine_id, 1)

\* The status documents of the sensor specification: machines with every
\* power mode and with the flag combinations that tell the labels apart
\* (flags are showBatteryWarning, isFrozen, mostRecentUploadWarning,
\* isDirty).
SensorFlags ==
    {NoFlags,
     << TRUE, TRUE, TRUE, TRUE >>,
     << TRUE, FALSE, TRUE, TRUE >>,
     << TRUE, FALSE, FALSE, TRUE >>,
     << FALSE, FALSE, FALSE, TRUE >>,
     << FALSE, TRUE, FALSE, FALSE >>}
SensorMachines ==
    {MachineObj(n, NoneNum, pm, f, EventsAbsent) :
        n \in {"Box A", "Box B"}, pm \in PowerModeVals, f \in SensorFlags}
SensorDocs ==
    {NoData, Doc("obj", "null", "absent", "absent", NonList("absent"), NonList("absent"))}
    \cup {Household(ListVal(<< >>), ListVal(m)) : m \in SeqsUpTo(SensorMachines, MaxMachines)}
\* The machine ids status sensors were created for.
SensorIds == {"Box A", "Box B"}

---------------------------------------------------------------------------
(* The entry set-up, the unload and the get_weight_history service *)

DOMAIN_NAME == "petivity"
ServiceName == "get_weight_history"

\* The attributes of PetivityWeightCoordinator that the integration defines
\* (coordinator.py 29-145 and 250-354).
WeightCoordinatorMethods ==
    {"_ensure_script_executable", "_get_environment", "_run_catalysis_command",
     "_execute_command", "_async_update_data", "_extract_current_weight",
     "get_cat_weight", "get_cat_name"}

\* weight_coordinator.async_get_historical_weight(cat_id, days): looking up
\* an attribute the class does not have raises AttributeError.
HistoricalWeight(cat_id, days) ==
    IF "async_get_historical_weight" \in WeightCoordinatorMethods
    THEN [exc |-> "none"]
    ELSE [exc |-> "AttributeError"]

\* A service call: cat_id, days (default 30) and request_id (default "").
ServiceCalls == [cat_id : CatIds, days : {7, 30}, request_id : {"", "r1"}]
NoServiceCall == [cat_id |-> Null, days |-> 0, request_id |-> ""]

\* The events get_weight_history fires on the bus for a call
\* (__init__.py 36-64).
GetWeightHistory(call) ==
    IF HistoricalWeight(call.cat_id, call.days).exc = "none"
    THEN << [type |-> DOMAIN_NAME \o "_weight_history_response", cat_id |-> call.cat_id,
             days |-> call.days, request_id |-> call.request_id] >>
    ELSE << [type |-> DOMAIN_NAME \o "_weight_history_error", cat_id |-> call.cat_id,
             error |-> HistoricalWeight(call.cat_id, call.days).exc,
             request_id |-> call.request_id] >>

\* Whether async_config_entry_first_refresh succeeds: it raises
\* ConfigEntryNotReady when the status command raises.
FirstRefreshIgnoringFailure(o) == TRUE
FirstRefreshOK(o) == RunCatalysisCommand(TRUE, o).exc = "none"

\* async_unload_entry after the platforms' unload returned unload_ok: the
\* services and hass.data[DOMAIN] it leaves.
UnloadAlways(unload_ok, svcs, hd) ==
    [services |-> svcs \ {ServiceName}, hass_data |-> hd \ {EntryId}]
Unload(unload_ok, svcs, hd) ==
    IF unload_ok
    THEN [services |-> svcs \ {ServiceName}, hass_data |-> hd \ {EntryId}]
    ELSE [services |-> svcs, hass_data |-> hd]

\* The status documents of the set-up specification.
SetupMachines ==
    {MachineObj("Box A", Some(80), "BATTERY", NoFlags, EventsAbsent),
     MachineObj("Box B", NoneNum, "AC", NoFlags, EventsAbsent),
     MachineObj(Absent, Some(80), Absent, NoFlags, EventsAbsent),
     MachineObj(Null, NoneNum, Null, NoFlags, EventsAbsent)}
SetupDocs ==
    {Doc("obj", "null", "absent", "absent", NonList("absent"), NonList("absent"))}
    \cup {Household(ListVal(c), ListVal(m)) :
            c \in PollCatLists,
            m \in SeqsUpTo(SetupMachines, MaxMachines)}

---------------------------------------------------------------------------
(* The config flow *)

\* The names const.py defines (const.py 3-20).
ConstNames ==
    {"DOMAIN", "PLATFORMS", "CONF_JWT", "CONF_CLIENT_ID", "CONF_REFRESH_TOKEN",
     "STATUS_UPDATE_INTERVAL", "WEIGHT_UPDATE_INTERVAL", "WEIGHT_TIME_WINDOW",
     "SCRIPT_RELATIVE_PATH", "QUERIES_RELATIVE_PATH"}
\* The names config_flow.py imports from const (config_flow.py 12-19).
ConfigFlowImports ==
    {"DOMAIN", "CONF_SCRIPT_PATH", "CONF_WORKING_DIR", "CONF_JWT", "CONF_CLIENT_ID",
     "CONF_REFRESH_TOKEN"}
\* Importing config_flow: `from .const import (...)` raises ImportError for
\* a name const does not define.
ImportConfigFlow ==
    IF ConfigFlowImports \subseteq ConstNames THEN "none" ELSE "ImportError"

\* The file system as _validate_setup sees it: what each script path is,
\* and what the working directory holds.
ScriptPaths == {"/opt/catalysis", "/tmp/other"}
WorkingDirs == {"/opt/work", "/tmp/nowhere"}
ScriptKinds == {"missing", "dir", "file", "exec_file"}
DirStates ==
    {[isdir |-> FALSE, queries |-> FALSE, status_gql |-> FALSE, weight_gql |-> FALSE],
     [isdir |-> TRUE, queries |-> FALSE, status_gql |-> FALSE, weight_gql |-> FALSE]}
    \cup {[isdir |-> TRUE, queries |-> TRUE, status_gql |-> a, weight_gql |-> b] :
            a \in BOOLEAN, b \in BOOLEAN}
FileSystems == [scripts : [ScriptPaths -> ScriptKinds], dirs : [WorkingDirs -> DirStates]]
UserInputs == [script_path : ScriptPaths, working_dir : WorkingDirs]
NoInput == [script_path |-> "", working_dir |-> ""]

\* PetivityConfigFlow._validate_setup
ValidateSetup(fs, script_path, working_dir) ==
    IF fs.scripts[script_path] # "exec_file" THEN FALSE
    ELSE IF ~fs.dirs[working_dir].isdir THEN FALSE
    ELSE IF ~fs.dirs[working_dir].queries THEN FALSE
    ELSE IF ~fs.dirs[working_dir].status_gql THEN FALSE
    ELSE IF ~fs.dirs[working_dir].weight_gql THEN FALSE
    ELSE TRUE

FlowForm(errors) == [type |-> "form", errors |-> errors, data |-> NoInput]
\* PetivityConfigFlow.async_step_user; has_input is `user_input is not None`.
AsyncStepUser(fs, has_input, user_input) ==
    IF has_input
    THEN IF ~ValidateSetup(fs, user_input.script_path, user_input.working_dir)
         THEN FlowForm({<< "base", "invalid_setup" >>})
         ELSE [type |-> "create_entry", errors |-> {}, data |-> user_input]
    ELSE FlowForm({})

\* Starting the user step: the flow handler's module is imported, then the
\* step is called.
StartUserStep(fs, has_input, user_input) ==
    IF ImportConfigFlow # "none"
    THEN [type |-> ImportConfigFlow, errors |-> {}, data |-> NoInput]
    ELSE AsyncStepUser(fs, has_input, user_input)

---------------------------------------------------------------------------
(* State *)

VARIABLES
    status_data,    \* PetivityStatusCoordinator.data: the last status document
    cats_res,       \* result of the last get_cats call
    machines_res,   \* result of the last get_machines call
    weight_in,      \* argument of the last _extract_current_weight call
    weight_res,     \* its result
    hass_data,      \* the entry ids under hass.data[DOMAIN]
    cat_weights,    \* PetivityWeightCoordinator._cat_weights
    weight_ret,     \* what the last weight refresh returned
    now,            \* the clock: weight refreshes that ran commands so far
    cmd_log,        \* the weight commands the last weight refresh issued, in order
    weight_exc,     \* the exception the last weight refresh raised, "none" if it returned
    setup_pc,       \* where async_setup_entry is
    setup_log,      \* the steps the current set-up has taken, in order
    services,       \* the services registered under the domain
    entities,       \* the entities the sensor platform passed to async_add_entities
    add_calls,      \* the number of async_add_entities calls of the platform set-up
    platform_exc,   \* the exception that ended the platform set-up, if any
    unload_res,     \* what the last async_unload_entry returned
    svc_call,       \* the last get_weight_history call
    bus,            \* the events fired for it
    flow_fs,        \* the file system the config flow looks at
    flow_step,      \* the last user step: "none", "no_input" or "input"
    flow_input,     \* its user_input
    flow_res,       \* its result
    script_mode,    \* the script file: missing, not executable or executable
    run_in,         \* what the environment did in the last _run_catalysis_command
    run_args,       \* the arguments after the command name in that call
    run_res,        \* what the call did: exception, value returned, calls made
    sensor_id,      \* the machine id of the status sensor read last
    native_res      \* what reading its native_value did

parseVars == << cats_res, machines_res, weight_in, weight_res >>
pollVars == << hass_data, cat_weights, weight_ret, now, cmd_log, weight_exc >>
lifeVars == << setup_pc, setup_log, services, entities, add_calls, platform_exc,
              unload_res, svc_call, bus >>
flowVars == << flow_fs, flow_step, flow_input, flow_res >>
cmdVars == << script_mode, run_in, run_args, run_res >>
sensorVars == << sensor_id, native_res >>
vars == << status_data, parseVars, pollVars, lifeVars, flowVars, cmdVars, sensorVars >>

\* No _run_catalysis_command call is being followed.
NoCommand == ExecOutcome("unused", "unused", NoData)
NotRun == [exc |-> "uncalled", val |-> NoData, calls |-> << >>]
NotRead == [exc |-> "uncalled", val |-> Null]
Uncalled == [exc |-> "uncalled", val |-> << >>]
UncalledNum == [exc |-> "uncalled", val |-> NoneNum]

---------------------------------------------------------------------------
(* The parsing specification: get_cats and get_machines on every shape of  *)
(* status document                                                         *)

\* The state after the coordinators are constructed.
Constructed ==
    /\ cats_res = Uncalled
    /\ machines_res = Uncalled
    /\ weight_in = NoResponse
    /\ weight_res = UncalledNum
    /\ cat_weights = EmptyDict
    /\ weight_ret = EmptyDict
    /\ now = 0
    /\ cmd_log = << >>
    /\ weight_exc = "none"
    /\ entities = << >>
    /\ add_calls = 0
    /\ platform_exc = "none"
    /\ unload_res = "none"
    /\ svc_call = NoServiceCall
    /\ bus = << >>
    /\ flow_step = "none"
    /\ flow_input = NoInput
    /\ flow_res = [type |-> "none", errors |-> {}, data |-> NoInput]
    /\ run_in = NoCommand
    /\ run_args = << >>
    /\ run_res = NotRun
    /\ sensor_id = Null
    /\ native_res = NotRead

\* No entry is set up.
NotLoaded ==
    /\ status_data = NoData
    /\ hass_data = {}
    /\ services = {}
    /\ setup_pc = "idle"
    /\ setup_log = << >>

\* async_setup_entry has returned True.
Loaded ==
    /\ hass_data = {EntryId}
    /\ services = {ServiceName}
    /\ setup_pc = "loaded"
    /\ setup_log = << "first_refresh", "store", "register", "forward" >>

\* The bundled script is in place and executable.
ScriptReady == script_mode = "executable"

SomeFileSystem == flow_fs = [scripts |-> [p \in ScriptPaths |-> "missing"],
                             dirs |-> [d \in WorkingDirs |-> CHOOSE x \in DirStates : ~x.isdir]]

ParseInit ==
    /\ Constructed
    /\ NotLoaded
    /\ SomeFileSystem
    /\ ScriptReady

\* A status refresh returned doc: DataUpdateCoordinator stores it in data.
ParseStatusRefresh ==
    \E doc \in ParseDocs :
        /\ status_data' = doc
        /\ cats_res' = Uncalled
        /\ machines_res' = Uncalled
        /\ UNCHANGED << weight_in, weight_res, pollVars, lifeVars, flowVars, cmdVars, sensorVars >>

CallGetCats ==
    /\ cats_res' = GetCats(status_data)
    /\ UNCHANGED << status_data, machines_res, weight_in, weight_res, pollVars, lifeVars, flowVars, cmdVars, sensorVars >>

CallGetMachines ==
    /\ machines_res' = GetMachines(status_data)
    /\ UNCHANGED << status_data, cats_res, weight_in, weight_res, pollVars, lifeVars, flowVars, cmdVars, sensorVars >>

ParseNext ==
    \/ ParseStatusRefresh
    \/ CallGetCats
    \/ CallGetMachines

SpecParse == ParseInit /\ [][ParseNext]_vars

---------------------------------------------------------------------------
(* The extraction specification: _extract_current_weight on every shape of *)
(* weight response                                                         *)

CallExtractCurrentWeight ==
    \E r \in ParseWeightDocs :
        /\ weight_in' = r
        /\ weight_res' = ExtractCurrentWeight(r)
        /\ UNCHANGED << status_data, cats_res, machines_res, pollVars, lifeVars, flowVars, cmdVars, sensorVars >>

ExtractNext == CallExtractCurrentWeight

SpecExtract == ParseInit /\ [][ExtractNext]_vars

---------------------------------------------------------------------------
(* The polling specification: the two coordinators' refreshes once the     *)
(* entry is set up (the first status refresh has succeeded and the         *)
(* coordinators are stored in hass.data)                                   *)

PollInit ==
    /\ Constructed
    /\ Loaded
    /\ SomeFileSystem
    /\ status_data \in PollDocs
    /\ ScriptReady

\* The outcomes of a command the polling specification draws from (the
\* permission retry is followed in the command specification).
PollOutcomes(payloads, nothing) ==
    {o \in ExecOutcomes(payloads, nothing) :
        o.first \in {"exit0_json", "exit1"}}

\* PetivityStatusCoordinator._async_update_data, run by the coordinator's
\* refresh: the document returned becomes data; if the command raises, data
\* keeps its value.
StatusRefreshFrom(docs) ==
    \E o \in PollOutcomes(docs, NoData) :
        /\ status_data' = IF RunCatalysisCommand(TRUE, o).exc = "none"
                          THEN o.stdout ELSE status_data
        /\ UNCHANGED << parseVars, pollVars, lifeVars, flowVars, cmdVars, sensorVars >>

StatusRefresh == StatusRefreshFrom(PollDocs)

\* CatsToWeigh without the look-up of the entry in hass.data.
CatsToWeighWithoutLookup ==
    LET g == GetCats(status_data) IN
    IF g.exc # "none" THEN [ok |-> FALSE, cats |-> << >>]
    ELSE IF g.val = << >> THEN [ok |-> FALSE, cats |-> << >>]
    ELSE [ok |-> TRUE, cats |-> g.val]

\* The first part of PetivityWeightCoordinator._async_update_data
\* (coordinator.py 261-274): the cats to fetch weights for; ok is false
\* when the refresh returns the cached data instead.
CatsToWeigh ==
    IF EntryId \notin hass_data THEN [ok |-> FALSE, cats |-> << >>]
    ELSE LET g == GetCats(status_data) IN
         IF g.exc # "none" THEN [ok |-> FALSE, cats |-> << >>]
         ELSE IF g.val = << >> THEN [ok |-> FALSE, cats |-> << >>]
         ELSE [ok |-> TRUE, cats |-> g.val]

\* PetivityWeightCoordinator._async_update_data.  If the loop body raises,
\* the refresh raises before _cat_weights is assigned: DataUpdateCoordinator
\* logs the exception and keeps its data.
WeightRefresh ==
    /\ now < MaxRefreshes
    /\ LET c == CatsToWeigh IN
       IF ~c.ok
       THEN /\ weight_ret' = cat_weights
            /\ cmd_log' = << >>
            /\ weight_exc' = "none"
            /\ UNCHANGED << cat_weights, now >>
       ELSE \E outs \in [1..Len(c.cats) -> PollOutcomes(PollWeightDocs, NoResponse)] :
                LET wd == WeightLoop(cat_weights, c.cats, outs, now + 1, 1, EmptyDict)
                    k == FirstRaising(c.cats, outs)
                IN
                /\ now' = now + 1
                /\ IF k = 0
                   THEN /\ cat_weights' = wd
                        /\ weight_ret' = wd
                        /\ weight_exc' = "none"
                        /\ cmd_log' = [i \in 1..Len(c.cats) |->
                                         CommandRecord(c.cats[i], outs[i])]
                   ELSE /\ weight_exc' = WeightForCatRaises(c.cats[k], outs[k])
                        /\ cmd_log' = [i \in 1..k |-> CommandRecord(c.cats[i], outs[i])]
                        /\ UNCHANGED << cat_weights, weight_ret >>
    /\ UNCHANGED << status_data, parseVars, hass_data, lifeVars, flowVars, cmdVars,
                    sensorVars >>

\* async_unload_entry; unload_ok is what async_unload_platforms returned.
\* Unloading the platforms removes their entities.
UnloadWith(unload_ok) ==
    /\ setup_pc = "loaded"
    /\ services' = Unload(unload_ok, services, hass_data).services
    /\ hass_data' = Unload(unload_ok, services, hass_data).hass_data
    /\ unload_res' = IF unload_ok THEN "True" ELSE "False"
    /\ setup_pc' = IF unload_ok THEN "idle" ELSE setup_pc
    /\ entities' = IF unload_ok THEN << >> ELSE entities
    /\ add_calls' = IF unload_ok THEN 0 ELSE add_calls
    /\ UNCHANGED << status_data, parseVars, cat_weights, weight_ret, now, cmd_log, weight_exc,
                    setup_log, platform_exc, svc_call, bus, flowVars, cmdVars, sensorVars >>

UnloadEntry == \E unload_ok \in BOOLEAN : UnloadWith(unload_ok)

\* The entry is unloaded while its coordinators are still polling.
PollUnload == UnloadWith(TRUE)

PollNext ==
    \/ StatusRefresh
    \/ WeightRefresh
    \/ PollUnload

SpecPoll == PollInit /\ [][PollNext]_vars

---------------------------------------------------------------------------
(* The refresh specification: weight refreshes over cats whose id is a     *)
(* string, missing, or a JSON list                                         *)

RefreshCatEntries ==
    {CatObj("c1", "Tom", ActSeen), CatObj(Null, "Tom", ActWarn),
     CatObj(UnhashableId, "Tom", ActSeen)}
RefreshDocs ==
    {Household(ListVal(s), NonList("absent")) :
        s \in {t \in SeqsUpTo(RefreshCatEntries, MaxCats) : Distinct(t)}}

RefreshInit ==
    /\ Constructed
    /\ Loaded
    /\ SomeFileSystem
    /\ ScriptReady
    /\ status_data \in RefreshDocs

RefreshStatus == StatusRefreshFrom(RefreshDocs)

RefreshNext ==
    \/ RefreshStatus
    \/ WeightRefresh

SpecRefresh == RefreshInit /\ [][RefreshNext]_vars

---------------------------------------------------------------------------
(* The set-up specification: async_setup_entry step by step, the sensor    *)
(* platform, the service and async_unload_entry                            *)

SetupInit ==
    /\ Constructed
    /\ NotLoaded
    /\ SomeFileSystem
    /\ ScriptReady

\* async_setup_entry starts (again after ConfigEntryNotReady or an unload):
\* the two coordinators are constructed (__init__.py 22-23).
SetupCreate ==
    /\ setup_pc \in {"idle", "not_ready"}
    /\ setup_pc' = "created"
    /\ setup_log' = << >>
    /\ status_data' = NoData
    /\ cat_weights' = EmptyDict
    /\ unload_res' = "none"
    /\ add_calls' = 0
    /\ platform_exc' = "none"
    /\ UNCHANGED << parseVars, hass_data, weight_ret, now, cmd_log, weight_exc,
                    services, entities, svc_call, bus, flowVars, cmdVars, sensorVars >>

\* await status_coordinator.async_config_entry_first_refresh()
\* (__init__.py 26): on failure ConfigEntryNotReady ends the set-up.
SetupFirstRefresh ==
    /\ setup_pc = "created"
    /\ \E o \in PollOutcomes(SetupDocs, NoData) :
        /\ status_data' = IF RunCatalysisCommand(TRUE, o).exc = "none"
                          THEN o.stdout ELSE status_data
        /\ setup_log' = Append(setup_log,
                               IF RunCatalysisCommand(TRUE, o).exc = "none"
                               THEN "first_refresh" ELSE "first_refresh_failed")
        /\ setup_pc' = IF FirstRefreshOK(o) THEN "refreshed" ELSE "not_ready"
    /\ UNCHANGED << parseVars, pollVars, services, entities, add_calls, platform_exc,
                    unload_res, svc_call, bus, flowVars, cmdVars, sensorVars >>

\* hass.data[DOMAIN][entry.entry_id] = {...} (__init__.py 29-33)
SetupStore ==
    /\ setup_pc = "refreshed"
    /\ hass_data' = hass_data \cup {EntryId}
    /\ setup_log' = Append(setup_log, "store")
    /\ setup_pc' = "stored"
    /\ UNCHANGED << status_data, parseVars, cat_weights, weight_ret, now, cmd_log, weight_exc,
                    services, entities, add_calls, platform_exc, unload_res,
                    svc_call, bus, flowVars, cmdVars, sensorVars >>

\* hass.services.async_register(DOMAIN, "get_weight_history", ...)
\* (__init__.py 67-76)
SetupRegister ==
    /\ setup_pc = "stored"
    /\ services' = services \cup {ServiceName}
    /\ setup_log' = Append(setup_log, "register")
    /\ setup_pc' = "registered"
    /\ UNCHANGED << status_data, parseVars, pollVars, entities, add_calls, platform_exc,
                    unload_res, svc_call, bus, flowVars, cmdVars, sensorVars >>

\* await hass.config_entries.async_forward_entry_setups(entry, PLATFORMS)
\* (__init__.py 79): the sensor platform's async_setup_entry runs.
SetupForward ==
    /\ setup_pc = "registered"
    /\ LET r == SensorSetup(hass_data, status_data) IN
        /\ entities' = r.entities
        /\ add_calls' = r.add_calls
        /\ platform_exc' = r.exc
    /\ setup_log' = Append(setup_log, "forward")
    /\ setup_pc' = "loaded"
    /\ UNCHANGED << status_data, parseVars, pollVars, services, unload_res, svc_call, bus,
                    flowVars, cmdVars, sensorVars >>

\* The get_weight_history handler, for a call the service registry accepted.
ServiceCall ==
    /\ ServiceName \in services
    /\ \E call \in ServiceCalls :
        /\ svc_call' = call
        /\ bus' = GetWeightHistory(call)
    /\ UNCHANGED << status_data, parseVars, pollVars, setup_pc, setup_log, services, entities,
                    add_calls, platform_exc, unload_res, flowVars, cmdVars, sensorVars >>

SetupNext ==
    \/ SetupCreate
    \/ SetupFirstRefresh
    \/ SetupStore
    \/ SetupRegister
    \/ SetupForward
    \/ ServiceCall
    \/ UnloadEntry

SpecSetup == SetupInit /\ [][SetupNext]_vars

---------------------------------------------------------------------------
(* The config flow specification: the user step on every file system *)

FlowInit ==
    /\ Constructed
    /\ NotLoaded
    /\ flow_fs \in FileSystems
    /\ ScriptReady

\* The user opens the form (user_input is None).
UserStepOpen ==
    /\ flow_step' = "no_input"
    /\ flow_input' = NoInput
    /\ flow_res' = StartUserStep(flow_fs, FALSE, NoInput)
    /\ UNCHANGED << status_data, parseVars, pollVars, lifeVars, cmdVars, sensorVars, flow_fs >>

\* The user submits the form.
UserStepSubmit ==
    /\ \E user_input \in UserInputs :
        /\ flow_step' = "input"
        /\ flow_input' = user_input
        /\ flow_res' = StartUserStep(flow_fs, TRUE, user_input)
    /\ UNCHANGED << status_data, parseVars, pollVars, lifeVars, cmdVars, sensorVars, flow_fs >>

FlowNext ==
    \/ UserStepOpen
    \/ UserStepSubmit

SpecFlow == FlowInit /\ [][FlowNext]_vars

---------------------------------------------------------------------------
(* The command specification: _run_catalysis_command and _execute_command  *)
(* on every outcome of the script                                          *)

\* PetivityCoordinatorBase.__init__ has called _ensure_script_executable:
\* the script is executable unless it is missing or os.chmod failed.
CommandInit ==
    /\ Constructed
    /\ NotLoaded
    /\ SomeFileSystem
    /\ script_mode \in ScriptModes

\* The argument lists the coordinators call with: none for "status", and
\* cat_id, start date, end date and "DAY" for "weight".
CatIdArgs == {"c1", Null}
CommandArgs == {<< "status" >>} \cup {<< "weight", id, "start", "end", "DAY" >> : id \in CatIdArgs}
AllStr(args) == \A i \in 1..Len(args) : args[i] # Null
CommandPayloads(args) == IF args[1] = "status" THEN PollDocs ELSE PollWeightDocs

\* One call of _run_catalysis_command, with the retry of _execute_command
\* and the chmod of _ensure_script_executable inside it.
RunCommand ==
    \E args \in CommandArgs, chmod_ok \in BOOLEAN :
        \E o \in ExecOutcomes(CommandPayloads(args), NoData) :
            LET r == RunCatalysisCommand(AllStr(args), o) IN
            /\ run_args' = args
            /\ run_in' = o
            /\ run_res' = [exc |-> r.exc,
                           val |-> IF r.exc = "none" THEN o.stdout ELSE NoData,
                           calls |-> r.calls]
            /\ script_mode' = IF "_ensure_script_executable" \in {r.calls[i] : i \in 1..Len(r.calls)}
                              THEN EnsureScriptExecutable(script_mode, chmod_ok)
                              ELSE script_mode
            /\ UNCHANGED << status_data, parseVars, pollVars, lifeVars, flowVars,
                            sensorVars >>

CommandNext == RunCommand

SpecCommand == CommandInit /\ [][CommandNext]_vars

---------------------------------------------------------------------------
(* The sensor specification: the machine status sensor's native_value as   *)
(* the status data changes                                                 *)

SensorInit ==
    /\ Constructed
    /\ Loaded
    /\ SomeFileSystem
    /\ ScriptReady
    /\ status_data \in SensorDocs

\* A status refresh returned doc; the sensor has not been read since.
SensorStatusRefresh ==
    \E doc \in SensorDocs :
        /\ status_data' = doc
        /\ sensor_id' = Null
        /\ native_res' = NotRead
        /\ UNCHANGED << parseVars, pollVars, lifeVars, flowVars, cmdVars >>

\* Home Assistant reads native_value of the status sensor of a machine.
ReadNativeValue ==
    \E id \in SensorIds :
        /\ sensor_id' = id
        /\ native_res' = NativeValue(status_data, id)
        /\ UNCHANGED << status_data, parseVars, pollVars, lifeVars, flowVars, cmdVars >>

SensorNext ==
    \/ SensorStatusRefresh
    \/ ReadNativeValue

SpecSensor == SensorInit /\ [][SensorNext]_vars

(* C1: get_cats and get_machines never raise: on every status document,   *)
(* whatever its shape, each call returns a list.                           *)
C1_ParsersNeverRaise ==
    /\ cats_res.exc \in {"uncalled", "none"}
    /\ machines_res.exc \in {"uncalled", "none"}

(* C2: weight results are cached between successful refreshes: after a    *)
(* weight refresh, a cat whose command failed and that had an entry in the *)
(* cache before the refresh has exactly that entry, and a cat whose        *)
(* command succeeded has a new entry built from this refresh's response.   *)
C2_CachedBetweenRefreshes ==
    [][now' # now =>
        LET cats == GetCats(status_data).val IN
        \A i \in 1..Len(cmd_log') :
            LET id == cmd_log'[i].cat_id IN
            /\ (cmd_log'[i].exc # "none" /\ id \in DOMAIN cat_weights) =>
                 (id \in DOMAIN cat_weights' /\ cat_weights'[id] = cat_weights[id])
            /\ cmd_log'[i].exc = "none" =>
                 /\ id \in DOMAIN cat_weights'
                 /\ cat_weights'[id].raw_data = cmd_log'[i].response
                 /\ cat_weights'[id].cat_name = cats[i].name
                 /\ cat_weights'[id].last_updated = now']_vars

(* C3: _run_catalysis_command returns the parsed JSON exactly when the     *)
(* subprocess exits with code 0 and prints valid JSON, and raises          *)
(* UpdateFailed, never another exception, for every other outcome and      *)
(* every argument list it is called with.                                  *)
C3_OnlyUpdateFailed ==
    \A i \in 1..Len(cmd_log) :
        /\ cmd_log[i].exc \in {"none", "UpdateFailed"}
        /\ cmd_log[i].exc = "none" <=> cmd_log[i].outcome = "exit0_json"

CatIdsOf(cats) == {cats[i].id : i \in 1..Len(cats)}

(* C4: a weight refresh that finds a non-empty cat list issues exactly one *)
(* "weight" command per cat of the list get_cats returned at its start, in *)
(* list order, and afterwards the ids in the weight cache are a subset of  *)
(* the ids of that list.                                                   *)
C4_WeightDerivedFromStatus ==
    [][now' # now =>
        LET cats == GetCats(status_data).val IN
        /\ cats # << >>
        /\ Len(cmd_log') = Len(cats)
        /\ \A i \in 1..Len(cats) :
              /\ cmd_log'[i].command = "weight"
              /\ cmd_log'[i].cat_id = cats[i].id
        /\ DOMAIN cat_weights' \subseteq CatIdsOf(cats)]_vars

\* The entities the claim names for the discovered cats and machines.
RECURSIVE ClaimedMachineEntities(_, _)
ClaimedMachineEntities(machines, i) ==
    IF i > Len(machines) THEN << >>
    ELSE MachineEntities(machines[i]) \o ClaimedMachineEntities(machines, i + 1)

\* The cases in which a weight refresh finds no cats: the entry is not in
\* hass.data, the status coordinator has no data, or its cat list is empty.
FindsNoCats ==
    \/ EntryId \notin hass_data
    \/ Falsy(status_data.top)
    \/ (GetCats(status_data).exc = "none" /\ GetCats(status_data).val = << >>)

(* C11: a weight refresh that finds no cats, or cannot reach the status    *)
(* coordinator in hass.data, runs no weight command, leaves the weight     *)
(* cache unchanged and returns the cached data.  (The steps that leave the *)
(* status data, hass.data and the entry's life cycle alone are the weight  *)
(* refreshes.)                                                             *)
C11_NoCatsKeepsCache ==
    [][(FindsNoCats /\ UNCHANGED << status_data, hass_data, lifeVars >>) =>
        /\ cmd_log' = << >>
        /\ cat_weights' = cat_weights
        /\ weight_ret' = cat_weights
        /\ now' = now]_vars

\* A refresh that found no cats ran after a weight had been cached, and
\* returned the cached weights.
C11_Witness ==
    /\ FindsNoCats
    /\ cat_weights # EmptyDict
    /\ cmd_log = << >>
    /\ weight_ret = cat_weights

(* C5: the sensor platform's set-up creates, for each cat get_cats returns, *)
(* one activity and one weight sensor and, for each machine get_machines   *)
(* returns, one status, one event-count and one last-event sensor plus a   *)
(* battery sensor iff its battery_percentage is not None, nothing else,    *)
(* and passes them to async_add_entities in a single call.                 *)
C5_EntitiesFromDiscovery ==
    (/\ setup_pc = "loaded"
     /\ GetCats(status_data).exc = "none"
     /\ GetMachines(status_data).exc = "none") =>
        /\ add_calls = 1
        /\ entities = CatEntities(GetCats(status_data).val, 1)
                        \o ClaimedMachineEntities(GetMachines(status_data).val, 1)

\* What the claim requires of the file system for an input to be accepted.
ClaimedValid(fs, input) ==
    /\ fs.scripts[input.script_path] = "exec_file"
    /\ fs.dirs[input.working_dir].isdir
    /\ fs.dirs[input.working_dir].queries
    /\ fs.dirs[input.working_dir].status_gql
    /\ fs.dirs[input.working_dir].weight_gql

(* C6: the user step without input shows the form with no errors; with     *)
(* input it creates the entry, with the input as data, iff the script is   *)
(* an executable regular file, the working directory and its queries       *)
(* subdirectory exist and hold status.graphql and cat-weight.graphql;      *)
(* otherwise it shows the form again with errors["base"] = "invalid_setup". *)
C6_UserStepValidates ==
    /\ flow_step = "no_input" => flow_res = FlowForm({})
    /\ flow_step = "input" =>
         IF ClaimedValid(flow_fs, flow_input)
         THEN flow_res = [type |-> "create_entry", errors |-> {}, data |-> flow_input]
         ELSE flow_res = FlowForm({<< "base", "invalid_setup" >>})

(* C7: for a get_weight_history call the handler fires exactly one         *)
(* petivity_weight_history_response event carrying the call's cat_id, days *)
(* and request_id; an error event is fired instead only when retrieving    *)
(* the data fails (no retrieval command fails in this specification).      *)
C7_ResponseEvent ==
    svc_call # NoServiceCall =>
        /\ Len(bus) = 1
        /\ bus[1].type = "petivity_weight_history_response"
        /\ bus[1].cat_id = svc_call.cat_id
        /\ bus[1].days = svc_call.days
        /\ bus[1].request_id = svc_call.request_id

IsPrefix(a, b) == Len(a) <= Len(b) /\ \A i \in 1..Len(a) : a[i] = b[i]

(* C9: the coordinators are stored, the service is registered and the      *)
(* platform is forwarded only after the first status refresh succeeded, in *)
(* that order; after a failed first refresh none of the three has happened. *)
C9_SetupOrder ==
    /\ \/ IsPrefix(setup_log, << "first_refresh", "store", "register", "forward" >>)
       \/ setup_log = << "first_refresh_failed" >>
    /\ ServiceName \in services => EntryId \in hass_data
    /\ setup_pc = "loaded" => (ServiceName \in services /\ EntryId \in hass_data)
    /\ (entities # << >> \/ add_calls > 0) => ServiceName \in services
    /\ setup_pc = "not_ready" =>
         /\ setup_log = << "first_refresh_failed" >>
         /\ hass_data = {}
         /\ services = {}
    /\ EntryId \in hass_data =>
         (setup_log # << >> /\ setup_log[1] = "first_refresh")

\* A set-up ran to its end and the platform added entities.
C9_Witness ==
    /\ setup_pc = "loaded"
    /\ setup_log = << "first_refresh", "store", "register", "forward" >>
    /\ entities # << >>

(* C10: async_unload_entry removes the service and the entry's             *)
(* coordinators from hass.data iff unloading the platforms succeeded; when *)
(* it failed it returns False and leaves both unchanged.                   *)
C10_UnloadIffOk ==
    /\ unload_res = "True" => (ServiceName \notin services /\ EntryId \notin hass_data)
    /\ unload_res = "False" => (ServiceName \in services /\ EntryId \in hass_data)

\* An unload succeeded after the service had been called.
C10_Witness ==
    /\ unload_res = "True"
    /\ setup_pc = "idle"
    /\ svc_call # NoServiceCall

\* The last measurement of the response's weight list, if there is one.
HasWeightList(r) ==
    /\ \A k \in {r.top, r.data, r.auth, r.node, r.agg} : k = "obj"
    /\ r.weight.kind = "list"
    /\ Len(r.weight.items) > 0
LastMeanIsNumber(r) ==
    /\ HasWeightList(r)
    /\ r.weight.items[Len(r.weight.items)].kind = "obj"
    /\ r.weight.items[Len(r.weight.items)].mean # NoneNum

(* C8: _extract_current_weight returns the last measurement's mean in     *)
(* pounds, rounded to 2 decimals, and returns None exactly when the weight *)
(* list is missing or empty or the last element's mean is null.            *)
C8_ExtractLastOrNone ==
    weight_res.exc # "uncalled" =>
        /\ weight_res.exc = "none"
        /\ (weight_res.val = NoneNum) <=> ~LastMeanIsNumber(weight_in)
        /\ LastMeanIsNumber(weight_in) =>
             weight_res.val =
                Some(ToPounds(weight_in.weight.items[Len(weight_in.weight.items)].mean[1]))

\* The subprocess starts among the calls of the last command.
Starts(calls) == {i \in 1..Len(calls) : calls[i] = "subprocess.run"}

(* C12: _execute_command starts the subprocess at most twice per call; the *)
(* second start happens only if the first raised PermissionError, and only *)
(* after _ensure_script_executable was called; a PermissionError of the    *)
(* second start is not retried and reaches the caller of                   *)
(* _run_catalysis_command as UpdateFailed.                                 *)
C12_RetryOnce ==
    run_res.exc # "uncalled" =>
        /\ Cardinality(Starts(run_res.calls)) <= 2
        /\ (AllStr(run_args) /\ run_in.first = "PermissionError") =>
             Cardinality(Starts(run_res.calls)) = 2
        /\ Cardinality(Starts(run_res.calls)) = 2 =>
             /\ run_in.first = "PermissionError"
             /\ run_res.calls = << "subprocess.run", "_ensure_script_executable",
                                   "subprocess.run" >>
        /\ (AllStr(run_args) /\ run_in.first = "PermissionError"
              /\ run_in.second = "PermissionError") =>
             run_res.exc = "UpdateFailed"

\* The script was started twice and the second start raised PermissionError
\* too.
C12_Witness ==
    /\ run_in.first = "PermissionError"
    /\ run_in.second = "PermissionError"
    /\ Cardinality(Starts(run_res.calls)) = 2
    /\ run_res.exc = "UpdateFailed"

\* The machines of the status response that carry the sensor's id, read
\* from the response itself.
RawMachines(d) ==
    IF PathOK(d) /\ d.top = "obj" /\ d.machines.kind = "list" THEN d.machines.items ELSE << >>
Present(d, id) == {i \in 1..Len(RawMachines(d)) : RawMachines(d)[i].name = id}
FirstPresent(d, id) ==
    RawMachines(d)[CHOOSE i \in Present(d, id) : \A j \in Present(d, id) : i <= j]
\* The label the claim gives a machine.
ClaimedLabel(m) ==
    IF m.isFrozen THEN "FROZEN"
    ELSE IF m.mostRecentUploadWarning THEN "UPLOAD_WARNING"
    ELSE IF m.showBatteryWarning THEN "LOW_BATTERY"
    ELSE IF m.isDirty THEN "NEEDS_CLEANING"
    ELSE "NORMAL"
PowerModeStrings == {"AC", "BATTERY", "UNKNOWN"}

(* C13: for a machine present in the status data the status sensor's       *)
(* native_value is "<label> | <power mode>", the label being the first of  *)
(* FROZEN, UPLOAD_WARNING, LOW_BATTERY, NEEDS_CLEANING that applies, else  *)
(* NORMAL; it is None when the machine is not in the status data.          *)
C13_StatusLabel ==
    native_res.exc # "uncalled" =>
        /\ native_res.exc = "none"
        /\ IF Present(status_data, sensor_id) = {}
           THEN native_res.val = Null
           ELSE \E pm \in PowerModeStrings :
                  native_res.val =
                     ClaimedLabel(FirstPresent(status_data, sensor_id)) \o " | " \o pm

(* C14: for a machine whose powerMode is absent or null the status         *)
(* sensor's native_value has "UNKNOWN" as its power mode part and the read *)
(* does not raise.                                                         *)
C14_UnknownPowerMode ==
    (/\ native_res.exc # "uncalled"
     /\ Present(status_data, sensor_id) # {}
     /\ FirstPresent(status_data, sensor_id).powerMode \in {Null, Absent}) =>
        /\ native_res.exc = "none"
        /\ native_res.val =
              ClaimedLabel(FirstPresent(status_data, sensor_id)) \o " | UNKNOWN"

(* C15: a weight refresh never fails as a whole: whatever the commands of  *)
(* its cats do, it returns a mapping and raises nothing, and it issues the *)
(* commands of the cats that come after a cat whose command failed.  (The  *)
(* steps that leave the status data, hass.data and the entry's life cycle  *)
(* alone are the weight refreshes.)                                        *)
C15_RefreshNeverFails ==
    [][UNCHANGED << status_data, hass_data, lifeVars >> =>
        /\ weight_exc' = "none"
        /\ weight_ret' = cat_weights'
        /\ now' # now => Len(cmd_log') = Len(GetCats(status_data).val)]_vars

=============================================================================
